---- MODULE Spec2Model ----
(***************************************************************************)
(* Car-pool matching (main.py, src/helper_functions.py, src/map_utils.py). *)
(* The session state of the Streamlit application, the handlers of its     *)
(* three pages, and the matching pipeline run by the Process button:       *)
(*   find_best_paths -> calculate_driver_companion_distances               *)
(*                   -> find_best_intersection_node -> match selection.    *)
(* One action is one script run in which one button is pressed.            *)
(***************************************************************************)
EXTENDS Integers, Sequences, FiniteSets, TLC

VARIABLES
    page,                       \* st.session_state.page
    logged_in,                  \* st.session_state.logged_in
    user_name,                  \* st.session_state.user_name ("" while absent)
    user_csid,                  \* st.session_state.user_csid ("" while absent)
    markers,                    \* st.session_state.markers: companion (lat, lon) list
    driver_coords,              \* st.session_state.driver_coords
    driver_capacity,            \* st.session_state.driver_capacity
    best_driver_info,           \* st.session_state.best_driver_info
    warning,                    \* the st.warning text this run shows ("" when none)
    reset,                      \* st.session_state.reset: the Reset Everything button (key "reset")
    bangalore_graph,            \* st.session_state.bangalore_graph
    path_order,                 \* which of several equal-weight shortest paths networkx returns
    distance_tables,            \* networkx's path lengths on bangalore_graph, worked out once
    paths,                      \* process_routes local: find_best_paths result
    aerial_distances,           \* process_routes local: candidate lists
    driver_companion_distances  \* process_routes local: find_best_intersection_node result

login == <<logged_in, user_name, user_csid>>
network == <<bangalore_graph, path_order, distance_tables>>
locals == <<paths, aerial_distances, driver_companion_distances>>
vars == <<page, logged_in, user_name, user_csid, markers, driver_coords, driver_capacity, best_driver_info,
          warning, reset,
          bangalore_graph, path_order, distance_tables,
          paths, aerial_distances, driver_companion_distances>>

-----------------------------------------------------------------------------
(* Bounds of the model and constants of the program.                        *)

MaxDrivers == 2         \* the driver slider goes to 10; the model stops here
MaxMarkers == 2         \* markers.append is unbounded; the model stops here
Inf == 9999             \* float('inf'): above every finite distance and time
buffer_time == 5
TopK == 5
SliderMax == 10         \* st.sidebar.slider("Number of Drivers (1-10)", 1, 10)
NoneNode == 0           \* best_intersection_node = None (graph node ids are >= 1)
NoNodeYet == -1         \* best_intersection_node = -1 in process_routes

-----------------------------------------------------------------------------
(* Small helpers.                                                           *)

SetMin(S) == CHOOSE x \in S : \A y \in S : x <= y
SetMax(S) == CHOOSE x \in S : \A y \in S : x >= y
Range(s) == {s[i] : i \in DOMAIN s}
Last(s) == s[Len(s)]

\* the same function, held as a table of values
Table(f) == f @@ <<>>

\* dict.get(key, default) on an attribute dictionary (a record)
Get(attrs, key, default) == IF key \in DOMAIN attrs THEN attrs[key] ELSE default

-----------------------------------------------------------------------------
(* The road network: a networkx MultiDiGraph.  nodes maps a node id to its  *)
(* attribute dictionary ('y' = latitude, 'x' = longitude, either may be     *)
(* absent); adj maps a connected pair <<u, v>> to the sequence of its        *)
(* parallel edges, key k at index k + 1, each an attribute dictionary.       *)

NodesOf(graph) == DOMAIN graph.nodes
HasEdge(graph, u, v) == <<u, v>> \in DOMAIN graph.adj

\* graph[u][v][0]: the parallel edge with key 0
FirstEdge(graph, u, v) == graph.adj[<<u, v>>][1]

\* networkx _weight_function on a multigraph: the lightest parallel edge,
\* an edge without the attribute weighing 1
EdgeWeight(graph, u, v, weight) ==
    LET d == graph.adj[<<u, v>>]
    IN  SetMin({Get(d[k], weight, 1) : k \in DOMAIN d})

-----------------------------------------------------------------------------
(* The graphs a session may load.  Nodes 1..6 are a one-way road to the     *)
(* office (node 6), node 7 lies beside the road, node 8 is cut off.          *)

E(l, t) == [length |-> l, travel_time |-> t]
At(lat, lon) == [y |-> lat, x |-> lon]

Road == [p \in {<<i, i + 1>> : i \in 1..5} |-> <<E(1, 1)>>]

Variants == {"base", "slow_first", "no_time", "shortcut", "no_coord"}

\* the road with node 7 put between nodes 3 and 4, at the place of node 4
MoreVariants == {"colocated", "stacked"}
Detour(l, t) ==
    (<<3, 7>> :> <<E(1, 1)>>) @@ (<<7, 4>> :> <<E(l, t)>>)
    @@ [p \in DOMAIN Road \ {<<3, 4>>} |-> Road[p]]

RoadOf(variant) ==
    CASE variant = "slow_first" -> (<<3, 4>> :> <<E(1, 3), E(1, 1)>>) @@ Road
      [] variant = "no_time"    -> (<<3, 4>> :> <<[length |-> 1]>>) @@ Road
      [] variant = "shortcut"   -> (<<1, 3>> :> <<E(2, 2)>>) @@ Road
      [] variant = "colocated"  -> Detour(0, 0)
      [] variant = "stacked"    -> Detour(1, 1)
      [] OTHER                  -> Road

Spurs == {"near", "slow", "too_slow", "tie", "both_ways", "none"}
MoreSpurs == {"parallel", "late", "untimed", "borderline"}

SpurOf(spur) ==
    CASE spur = "near"      -> (<<3, 7>> :> <<E(1, 1)>>)
      [] spur = "slow"      -> (<<2, 7>> :> <<E(1, 6)>>) @@ (<<5, 7>> :> <<E(3, 1)>>)
      [] spur = "too_slow"  -> (<<2, 7>> :> <<E(1, 9)>>)
      [] spur = "tie"       -> (<<3, 7>> :> <<E(2, 1)>>) @@ (<<4, 7>> :> <<E(2, 1)>>)
      [] spur = "both_ways" -> (<<3, 7>> :> <<E(1, 1)>>) @@ (<<7, 3>> :> <<E(1, 1)>>)
      [] spur = "parallel"  -> (<<5, 7>> :> <<E(3, 4), E(2, 1)>>)
      [] spur = "late"      -> (<<4, 7>> :> <<E(1, 8)>>)
      [] spur = "untimed"   -> (<<5, 7>> :> <<[length |-> 3]>>)
      [] spur = "borderline" -> (<<2, 7>> :> <<E(1, 6)>>)
      [] OTHER              -> [p \in {} |-> <<>>]

\* cx: the longitude of node 7
GraphOf(variant, spur, cx) ==
    [nodes |-> [n \in 1..8 |->
                   IF n = 7 THEN (IF variant \in MoreVariants THEN At(0, 8) ELSE At(1, cx))
                   ELSE IF n = 8 THEN At(6, 2)
                   ELSE IF n = 5 /\ variant = "no_coord" THEN [x |-> 10]
                   ELSE At(0, 2 * n)],
     adj |-> SpurOf(spur) @@ RoadOf(variant)]

GraphChoices ==
    {<<"base", s, 7>> : s \in Spurs}
    \cup {<<"base", s, 8>> : s \in {"near", "slow", "tie"}}
    \cup {<<"slow_first", "slow", 7>>, <<"no_time", "slow", 7>>,
          <<"shortcut", "near", 7>>, <<"no_coord", "near", 7>>,
          <<"no_coord", "slow", 7>>, <<"base", "parallel", 7>>,
          <<"slow_first", "late", 7>>, <<"base", "untimed", 7>>,
          <<"base", "borderline", 7>>,
          <<"colocated", "none", 7>>, <<"stacked", "none", 7>>}

\* load_bangalore_map_with_times: the graphs the loader may return
load_bangalore_map_with_times == {GraphOf(c[1], c[2], c[3]) : c \in GraphChoices}

HasEqualPaths(graph) == HasEdge(graph, 1, 3)

-----------------------------------------------------------------------------
(* networkx's path queries.                                                 *)

\* one round of relaxation of every edge
RelaxOnce(graph, weight, d) ==
    Table([v \in NodesOf(graph) |->
        SetMin({d[v]} \cup
               {d[p[1]] + EdgeWeight(graph, p[1], v, weight) :
                    p \in {q \in DOMAIN graph.adj : q[2] = v /\ d[q[1]] < Inf}})])

\* relaxation until nothing changes
RECURSIVE Relax(_, _, _)
Relax(graph, weight, d) ==
    LET next == RelaxOnce(graph, weight, d)
    IN  IF next = d THEN d ELSE Relax(graph, weight, next)

\* minimum total weight from source to every node; Inf where there is no path
ComputeDistances(graph, source, weight) ==
    Relax(graph, weight, Table([v \in NodesOf(graph) |-> IF v = source THEN 0 ELSE Inf]))

\* ComputeDistances for every weight the program asks for and every source
Weights == {"travel_time", "length", "distance"}
AllDistances(graph) ==
    Table([weight \in Weights |->
        Table([source \in NodesOf(graph) |-> ComputeDistances(graph, source, weight)])])

\* ComputeDistances, read from distance_tables where it is held there
Distances(graph, source, weight) ==
    IF weight \in Weights /\ graph = bangalore_graph
    THEN distance_tables[weight][source]
    ELSE ComputeDistances(graph, source, weight)

\* nx.shortest_path_length(graph, source, target, weight): raises NetworkXNoPath
\* (here: Inf) when target cannot be reached
shortest_path_length(graph, source, target, weight) ==
    Distances(graph, source, weight)[target]

RECURSIVE WalkBack(_, _, _, _, _)
WalkBack(graph, weight, d, source, v) ==
    IF v = source THEN <<source>>
    ELSE LET tight == {u \in NodesOf(graph) :
                          /\ HasEdge(graph, u, v)
                          /\ d[u] < Inf
                          /\ d[u] + EdgeWeight(graph, u, v, weight) = d[v]}
             u == IF path_order = "low" THEN SetMin(tight) ELSE SetMax(tight)
         IN  Append(WalkBack(graph, weight, d, source, u), v)

\* nx.shortest_path(graph, source, target, weight): a minimum-weight node
\* sequence, path_order telling which one when several weigh the same; raises
\* NetworkXNoPath (here: the empty sequence) when there is none
shortest_path(graph, source, target, weight) ==
    LET d == Distances(graph, source, weight)
    IN  IF d[target] >= Inf THEN <<>>
        ELSE WalkBack(graph, weight, d, source, target)

HasCoords(graph, n) == "y" \in DOMAIN graph.nodes[n] /\ "x" \in DOMAIN graph.nodes[n]

\* Great-circle distance on the model's grid, where it is ordered as the
\* squared planar distance: symmetric, 0 on equal points
get_distance_from_lat_lon_in_km(lat1, lon1, lat2, lon2) ==
    (lat2 - lat1) * (lat2 - lat1) + (lon2 - lon1) * (lon2 - lon1)

calculate_aerial_distance(graph, node1, node2) ==
    IF ~HasCoords(graph, node1) \/ ~HasCoords(graph, node2) THEN Inf
    ELSE get_distance_from_lat_lon_in_km(graph.nodes[node1].y, graph.nodes[node1].x,
                                         graph.nodes[node2].y, graph.nodes[node2].x)

\* ox.distance.nearest_nodes(graph, X = lon, Y = lat): the node closest to the
\* point, the lowest id among equally close ones
nearest_nodes(graph, lon, lat) ==
    LET located == {n \in NodesOf(graph) : HasCoords(graph, n)}
        dist(n) == get_distance_from_lat_lon_in_km(lat, lon, graph.nodes[n].y, graph.nodes[n].x)
        best == SetMin({dist(n) : n \in located})
    IN  SetMin({n \in located : dist(n) = best})

-----------------------------------------------------------------------------
(* Dictionaries are sequences of entries in insertion order, which is the   *)
(* order Python iterates them in.  A location label is its kind and, for a   *)
(* driver, the decimal digits of its number: f'driver{i + 1}'.               *)

RECURSIVE Digits(_)
Digits(n) == IF n < 10 THEN <<n>> ELSE Append(Digits(n \div 10), n % 10)

\* labels counted from 0: f'driver{i}'
DriverLabel_ZeroBased(i) == [kind |-> "driver", num |-> Digits(i - 1)]

DriverLabel(i) == [kind |-> "driver", num |-> Digits(i)]
OfficeLabel == [kind |-> "office", num |-> <<>>]
CompanionLabel == [kind |-> "companion", num |-> <<>>]
NoLabel == [kind |-> "None", num |-> <<>>]

\* d[key] on a dictionary held as a sequence of entries with a label field
Lookup(d, label) == d[CHOOSE i \in DOMAIN d : d[i].label = label]

\* main.py: st.session_state.office_location
office_location == <<-1, 12>>

\* find_best_paths with a driver without path left out of the mapping
find_best_paths_DropsUnrouted(graph, locations) ==
    LET office == Lookup(locations, OfficeLabel).coords
        office_node == nearest_nodes(graph, office[2], office[1])
        drivers == SelectSeq(locations, LAMBDA e : e.label.kind = "driver")
        route(e) ==
            LET driver_node == nearest_nodes(graph, e.coords[2], e.coords[1])
            IN  shortest_path(graph, driver_node, office_node, "travel_time")
        all == Table([i \in DOMAIN drivers |->
                  [label |-> drivers[i].label, path |-> route(drivers[i])]])
    IN  SelectSeq(all, LAMBDA e : e.path # <<>>)

find_best_paths(graph, locations) ==
    LET office == Lookup(locations, OfficeLabel).coords
        office_node == nearest_nodes(graph, office[2], office[1])
        drivers == SelectSeq(locations, LAMBDA e : e.label.kind = "driver")
        route(e) ==
            LET driver_node == nearest_nodes(graph, e.coords[2], e.coords[1])
            IN  shortest_path(graph, driver_node, office_node, "travel_time")
    IN  Table([i \in DOMAIN drivers |->
                  [label |-> drivers[i].label, path |-> route(drivers[i])]])

\* an unstable sort: an element goes before the elements with an equal key
RECURSIVE InsertByDistance_Unstable(_, _)
InsertByDistance_Unstable(sorted, e) ==
    IF sorted = <<>> THEN <<e>>
    ELSE IF Last(sorted)[2] < e[2] THEN Append(sorted, e)
    ELSE Append(InsertByDistance_Unstable(SubSeq(sorted, 1, Len(sorted) - 1), e), Last(sorted))

\* sorted(distances, key=lambda x: x[1]): stable, an element goes behind the
\* elements with an equal key that came before it
RECURSIVE InsertByDistance(_, _)
InsertByDistance(sorted, e) ==
    IF sorted = <<>> THEN <<e>>
    ELSE IF Last(sorted)[2] <= e[2] THEN Append(sorted, e)
    ELSE Append(InsertByDistance(SubSeq(sorted, 1, Len(sorted) - 1), e), Last(sorted))

RECURSIVE SortedByDistance(_)
SortedByDistance(distances) ==
    IF distances = <<>> THEN <<>>
    ELSE InsertByDistance(SortedByDistance(SubSeq(distances, 1, Len(distances) - 1)),
                          Last(distances))

\* [:6]
Top_OneMore(s) == SubSeq(s, 1, IF Len(s) < TopK + 1 THEN Len(s) ELSE TopK + 1)

\* [:5]
Top(s) == SubSeq(s, 1, IF Len(s) < TopK THEN Len(s) ELSE TopK)

\* the loop body with the farthest nodes first: sorted(..., reverse=True)
top_5_nodes_Farthest(graph, path, companion_node) ==
    LET on_graph == SelectSeq(path, LAMBDA node :
                        node \in NodesOf(graph) /\ companion_node \in NodesOf(graph))
        distances == Table([i \in DOMAIN on_graph |->
                        <<on_graph[i], -calculate_aerial_distance(graph, on_graph[i], companion_node)>>])
        top == Top(SortedByDistance(distances))
    IN  Table([k \in DOMAIN top |-> <<top[k][1], -top[k][2]>>])

\* the body of the loop over companion_nodes, for one driver and one companion
top_5_nodes(graph, path, companion_node) ==
    LET on_graph == SelectSeq(path, LAMBDA node :
                        node \in NodesOf(graph) /\ companion_node \in NodesOf(graph))
        distances == Table([i \in DOMAIN on_graph |->
                        <<on_graph[i], calculate_aerial_distance(graph, on_graph[i], companion_node)>>])
    IN  Top(SortedByDistance(distances))

\* calculate_driver_companion_distances without the skip of an empty route
calculate_driver_companion_distances_NoSkip(graph, driver_paths, companion_nodes) ==
    LET n == Len(companion_nodes)
    IN  Table([k \in 1..(Len(driver_paths) * n) |->
            LET e == driver_paths[((k - 1) \div n) + 1]
                companion_node == companion_nodes[((k - 1) % n) + 1]
            IN  [label |-> e.label, companion |-> companion_node,
                 top |-> top_5_nodes(graph, e.path, companion_node)]])

calculate_driver_companion_distances(graph, driver_paths, companion_nodes) ==
    LET routed == SelectSeq(driver_paths, LAMBDA e : e.path # <<>>)
        n == Len(companion_nodes)
    IN  Table([k \in 1..(Len(routed) * n) |->
            LET e == routed[((k - 1) \div n) + 1]
                companion_node == companion_nodes[((k - 1) % n) + 1]
            IN  [label |-> e.label, companion |-> companion_node,
                 top |-> top_5_nodes(graph, e.path, companion_node)]])

\* the sum with the lightest of the parallel edges in place of the first
RECURSIVE travel_time_along_Lightest(_, _)
travel_time_along_Lightest(graph, path) ==
    IF Len(path) <= 1 THEN 0
    ELSE LET d == graph.adj[<<path[Len(path) - 1], path[Len(path)]>>]
         IN  travel_time_along_Lightest(graph, SubSeq(path, 1, Len(path) - 1))
             + SetMin({Get(d[k], "travel_time", 0) : k \in DOMAIN d})

\* sum(graph[u][v][0].get('travel_time', 0) for u, v in zip(path[:-1], path[1:]))
RECURSIVE travel_time_along(_, _)
travel_time_along(graph, path) ==
    IF Len(path) <= 1 THEN 0
    ELSE travel_time_along(graph, SubSeq(path, 1, Len(path) - 1))
         + Get(FirstEdge(graph, path[Len(path) - 1], path[Len(path)]), "travel_time", 0)

\* The two legs of one candidate node: raised is the NetworkXNoPath of any of
\* the four path queries of the try block.
Legs(graph, start, node, companion_node) ==
    LET path_to_intersection == shortest_path(graph, start, node, "travel_time")
        road_distance_to_intersection == shortest_path_length(graph, start, node, "length")
        path_from_intersection == shortest_path(graph, node, companion_node, "length")
        road_distance_from_intersection ==
            shortest_path_length(graph, node, companion_node, "length")
        raised == \/ path_to_intersection = <<>>
                  \/ road_distance_to_intersection >= Inf
                  \/ path_from_intersection = <<>>
                  \/ road_distance_from_intersection >= Inf
    IN  [raised |-> raised,
         time_to |-> IF raised THEN Inf ELSE travel_time_along(graph, path_to_intersection),
         dist_to |-> road_distance_to_intersection,
         dist_from |-> road_distance_from_intersection,
         time_from |-> IF raised THEN Inf ELSE travel_time_along(graph, path_from_intersection)]

\* the acceptance test without its buffer condition
Accepts_NoBuffer(legs, shortest_road_distance) ==
    legs.dist_from < shortest_road_distance

\* the acceptance test with <= for <: the later of two equals wins
Accepts_OrEqual(legs, shortest_road_distance) ==
    /\ legs.dist_from <= shortest_road_distance
    /\ legs.time_from <= legs.time_to + buffer_time

\* the condition of the if statement that accepts a candidate
Accepts(legs, shortest_road_distance) ==
    /\ legs.dist_from < shortest_road_distance
    /\ legs.time_from <= legs.time_to + buffer_time

\* an iteration whose exception handler forgets the running best
TryNode_ForgetsOnNoPath(graph, start, companion_node, node, best) ==
    LET legs == Legs(graph, start, node, companion_node)
    IN  IF legs.raised THEN [distance |-> Inf, time |-> Inf, node |-> NoneNode]
        ELSE IF Accepts(legs, best.distance)
             THEN [distance |-> legs.dist_from, time |-> legs.time_from, node |-> node]
             ELSE best

\* an iteration that takes over the distance and the time of an accepted
\* candidate but not the node
TryNode_ForgetsNode(graph, start, companion_node, node, best) ==
    LET legs == Legs(graph, start, node, companion_node)
    IN  IF legs.raised THEN best
        ELSE IF Accepts(legs, best.distance)
             THEN [distance |-> legs.dist_from, time |-> legs.time_from, node |-> best.node]
             ELSE best

\* one iteration of the loop over top_5_nodes: the running best after node
TryNode(graph, start, companion_node, node, best) ==
    LET legs == Legs(graph, start, node, companion_node)
    IN  IF legs.raised THEN best
        ELSE IF Accepts(legs, best.distance)
             THEN [distance |-> legs.dist_from, time |-> legs.time_from, node |-> node]
             ELSE best

\* the running best after the first k candidates
RECURSIVE BestAfter(_, _, _, _, _)
BestAfter(graph, start, companion_node, top, k) ==
    IF k = 0 THEN [distance |-> Inf, time |-> Inf, node |-> NoneNode]
    ELSE TryNode(graph, start, companion_node, top[k][1],
                 BestAfter(graph, start, companion_node, top, k - 1))

\* find_best_intersection_node recording a pair only when it found a node
find_best_intersection_node_OnlyFound(graph, driver_paths, companion_nodes, aerial) ==
    LET all == Table([i \in DOMAIN aerial |->
                   LET e == aerial[i]
                       start == Lookup(driver_paths, e.label).path[1]
                       best == BestAfter(graph, start, e.companion, e.top, Len(e.top))
                   IN  [label |-> e.label, companion |-> e.companion,
                        distance |-> best.distance, time |-> best.time, node |-> best.node]])
    IN  SelectSeq(all, LAMBDA r : r.node # NoneNode)

find_best_intersection_node(graph, driver_paths, companion_nodes, aerial) ==
    Table([i \in DOMAIN aerial |->
        LET e == aerial[i]
            start == Lookup(driver_paths, e.label).path[1]
            best == BestAfter(graph, start, e.companion, e.top, Len(e.top))
        IN  [label |-> e.label, companion |-> e.companion,
             distance |-> best.distance, time |-> best.time, node |-> best.node]])

\* the scan with <= for <: the last of the entries with the least distance wins
RECURSIVE SelectAfter_LastOnTie(_, _)
SelectAfter_LastOnTie(results, k) ==
    IF k = 0 THEN [driver |-> NoLabel, distance |-> Inf, time |-> 0, node |-> NoNodeYet]
    ELSE LET best == SelectAfter_LastOnTie(results, k - 1)
             e == results[k]
         IN  IF e.distance <= best.distance
             THEN [driver |-> e.label, distance |-> e.distance, time |-> e.time, node |-> e.node]
             ELSE best

\* process_routes: the scan for the minimum distance, after the first k entries
RECURSIVE SelectAfter(_, _)
SelectAfter(results, k) ==
    IF k = 0 THEN [driver |-> NoLabel, distance |-> Inf, time |-> 0, node |-> NoNodeYet]
    ELSE LET best == SelectAfter(results, k - 1)
             e == results[k]
         IN  IF e.distance < best.distance
             THEN [driver |-> e.label, distance |-> e.distance, time |-> e.time, node |-> e.node]
             ELSE best

\* best_driver_info = {best_driver: (best_distance, best_time, best_intersection_node)}
\* a dictionary with exactly one entry, whatever the scan found
SelectBest(results) == <<SelectAfter(results, Len(results))>>

\* truth value of a dictionary or None (None is held as the empty sequence)
Truthy(d) == d # <<>>

-----------------------------------------------------------------------------
(* What the user may type.  A text is held as the fields that split(',')     *)
(* yields; a field is a number or something float() rejects.                 *)

Num(n) == [float |-> TRUE, value |-> n]
Junk == [float |-> FALSE, value |-> 0]

\* lat, lon = map(float, text.split(',')): <<>> stands for the ValueError
ParseLatLon(text) ==
    IF Len(text) = 2 /\ text[1].float /\ text[2].float
    THEN <<text[1].value, text[2].value>>
    ELSE <<>>

CompanionTexts == {<<Num(2), Num(7)>>, <<Num(-1), Num(8)>>, <<Num(2), Junk>>, <<Num(2)>>}
DriverTexts == {<<Num(-1), Num(2)>>, <<Num(-1), Num(4)>>, <<Num(7), Num(2)>>, <<Junk, Num(2)>>}
Names == {"", "a"}
Capacities == {2}

-----------------------------------------------------------------------------
(* The session.                                                             *)

Init ==
    /\ page = "login"
    /\ logged_in = FALSE /\ user_name = "" /\ user_csid = ""
    /\ markers = <<>>
    /\ driver_coords = <<>>
    /\ driver_capacity = <<>>
    /\ best_driver_info = <<>>
    /\ warning = ""
    /\ reset = FALSE
    /\ bangalore_graph \in load_bangalore_map_with_times
    /\ path_order \in (IF HasEqualPaths(bangalore_graph) THEN {"low", "high"} ELSE {"low"})
    /\ distance_tables = AllDistances(bangalore_graph)
    /\ paths = <<>> /\ aerial_distances = <<>> /\ driver_companion_distances = <<>>

LoginWarning == "Both fields are required!"
ProcessWarning == "Please add both driver and companion locations before processing."

\* the locals of process_routes do not outlive its run
NoLocals == paths' = <<>> /\ aerial_distances' = <<>> /\ driver_companion_distances' = <<>>

\* the login form taking a name or a CSID alone
display_login_page_EitherField ==
    /\ page = "login"
    /\ \E name \in Names, csid \in Names :
          IF name # "" \/ csid # ""
          THEN /\ logged_in' = TRUE /\ user_name' = name /\ user_csid' = csid
               /\ page' = "map" /\ warning' = ""
          ELSE warning' = LoginWarning /\ UNCHANGED <<login, page>>
    /\ reset' = FALSE
    /\ NoLocals
    /\ UNCHANGED <<markers, driver_coords, driver_capacity, best_driver_info,
                   network>>

\* Login button of the login form
display_login_page ==
    /\ page = "login"
    /\ \E name \in Names, csid \in Names :
          IF name # "" /\ csid # ""
          THEN /\ logged_in' = TRUE /\ user_name' = name /\ user_csid' = csid
               /\ page' = "map" /\ warning' = ""
          ELSE warning' = LoginWarning /\ UNCHANGED <<login, page>>
    /\ reset' = FALSE
    /\ NoLocals
    /\ UNCHANGED <<markers, driver_coords, driver_capacity, best_driver_info,
                   network>>

\* Add Companion button
handle_companion_input ==
    /\ page = "map"
    /\ Len(markers) < MaxMarkers
    /\ \E companion_input \in CompanionTexts :
          LET parsed == ParseLatLon(companion_input)
          IN  IF parsed # <<>> THEN markers' = Append(markers, parsed)
              ELSE UNCHANGED markers
    /\ warning' = ""
    /\ reset' = FALSE
    /\ NoLocals
    /\ UNCHANGED <<page, login, driver_coords, driver_capacity, best_driver_info,
                   network>>

\* handle_driver_options: the lists built from the sidebar inputs, a driver
\* whose text does not parse being left out of both
RECURSIVE ParsedDrivers(_)
ParsedDrivers(inputs) ==
    IF inputs = <<>> THEN <<>>
    ELSE LET rest == ParsedDrivers(SubSeq(inputs, 1, Len(inputs) - 1))
             parsed == ParseLatLon(Last(inputs).text)
         IN  IF parsed # <<>>
             THEN Append(rest, [coords |-> parsed, capacity |-> Last(inputs).capacity])
             ELSE rest

\* the sidebar inputs of num_drivers drivers; a text that does not parse is
\* tried in the first driver's field
DriverInputs(num_drivers) ==
    {inputs \in [1..num_drivers -> [text : DriverTexts, capacity : Capacities]] :
        \A i \in 2..num_drivers : ParseLatLon(inputs[i].text) # <<>>}

\* the slider at its maximum: one driver on the road, the others at a place
\* cut off from the office
FullSliderInputs ==
    {[i \in 1..SliderMax |->
         [text |-> IF i = k THEN <<Num(-1), Num(2)>> ELSE <<Num(7), Num(2)>>, capacity |-> 2]] :
       k \in 1..SliderMax}

\* Update Drivers button: update_drivers(driver_coords, capacity_list), for the
\* sidebar inputs of a given set
update_drivers_with(choices) ==
    /\ page = "map"
    /\ \E inputs \in choices :
          LET parsed == ParsedDrivers(inputs)
          IN  /\ driver_coords' = [i \in DOMAIN parsed |-> parsed[i].coords]
              /\ driver_capacity' = [i \in DOMAIN parsed |-> parsed[i].capacity]
    /\ warning' = ""
    /\ reset' = FALSE
    /\ NoLocals
    /\ UNCHANGED <<page, login, markers, best_driver_info, network>>

\* Update Drivers with the slider at 1..MaxDrivers
update_drivers == update_drivers_with(UNION {DriverInputs(n) : n \in 1..MaxDrivers})

\* Update Drivers with the slider at its maximum
update_ten_drivers == update_drivers_with(FullSliderInputs)

\* Clear Drivers button
clear_drivers ==
    /\ page = "map"
    /\ driver_coords' = <<>>
    /\ driver_capacity' = <<>>
    /\ warning' = ""
    /\ reset' = FALSE
    /\ NoLocals
    /\ UNCHANGED <<page, login, markers, best_driver_info, network>>

\* the locations dictionary of process_routes
Locations ==
    [i \in DOMAIN driver_coords |-> [label |-> DriverLabel(i), coords |-> driver_coords[i]]]
    \o <<[label |-> OfficeLabel, coords |-> office_location],
         [label |-> CompanionLabel, coords |-> markers[1]]>>

\* the loop that prints the results looks up the coordinates of every
\* intersection node: a KeyError ends the run before the selection
PrintRaises(graph, results) ==
    \E i \in DOMAIN results :
        results[i].node # NoneNode /\ ~HasCoords(graph, results[i].node)

\* the condition with the driver list left out
ProcessGuard_MarkersOnly == markers # <<>>

\* if st.session_state.driver_coords and st.session_state.markers
ProcessGuard == driver_coords # <<>> /\ markers # <<>>

\* the companion added last in place of the first
companion_coords_Last == markers[Len(markers)]

\* companion_coords = st.session_state.markers[0]  # Take the first companion
companion_coords == markers[1]

\* the body of process_routes
matching ==
    IF ProcessGuard
    THEN LET found == find_best_paths(bangalore_graph, Locations)
             comp_node == <<nearest_nodes(bangalore_graph, companion_coords[2], companion_coords[1])>>
             aerial == calculate_driver_companion_distances(bangalore_graph, found, comp_node)
             results == find_best_intersection_node(bangalore_graph, found, comp_node, aerial)
             info == SelectBest(results)
         IN  /\ warning' = ""
             /\ IF PrintRaises(bangalore_graph, results)
                THEN NoLocals /\ UNCHANGED <<best_driver_info, page>>
                ELSE /\ paths' = found
                     /\ aerial_distances' = aerial
                     /\ driver_companion_distances' = results
                     /\ IF Truthy(info)
                        THEN best_driver_info' = info /\ page' = "results"
                        ELSE UNCHANGED <<best_driver_info, page>>
    ELSE /\ warning' = ProcessWarning
         /\ NoLocals /\ UNCHANGED <<best_driver_info, page>>

\* a Process run that loads the road network anew
process_routes_ReloadsGraph ==
    /\ page = "map"
    /\ matching
    /\ reset' = FALSE
    /\ bangalore_graph' \in load_bangalore_map_with_times
    /\ distance_tables' = AllDistances(bangalore_graph')
    /\ UNCHANGED <<login, markers, driver_coords, driver_capacity, path_order>>

\* Process button
process_routes ==
    /\ page = "map"
    /\ matching
    /\ reset' = FALSE
    /\ UNCHANGED <<login, markers, driver_coords, driver_capacity, network>>

\* Logout button of the map page
logout_map ==
    /\ page = "map"
    /\ page' = "login"
    /\ warning' = ""
    /\ reset' = FALSE
    /\ NoLocals
    /\ UNCHANGED <<login, markers, driver_coords, driver_capacity, best_driver_info,
                   network>>

-----------------------------------------------------------------------------
(* The results page.  Its two buttons come after the rendering of the       *)
(* match, so a run in which the rendering raises offers no button.           *)

\* seq[i] in Python, <<>> standing for the IndexError
PyIndex(seq, i) ==
    IF i >= 0 /\ i < Len(seq) THEN <<seq[i + 1]>>
    ELSE IF i < 0 /\ -i <= Len(seq) THEN <<seq[Len(seq) + i + 1]>>
    ELSE <<>>

\* graph.nodes[node]['y'], graph.nodes[node]['x'] of every node raise nothing
Plottable(graph, path) == \A i \in DOMAIN path : HasCoords(graph, path[i])

\* plot_paths_on_map returns instead of raising
plot_paths_on_map(found, graph, locations, info) ==
    LET e == info[1]
        route == Lookup(found, e.driver).path
        companion == Lookup(locations, CompanionLabel).coords
        companion_node == nearest_nodes(graph, companion[2], companion[1])
    IN  /\ \A i \in DOMAIN found : Plottable(graph, found[i].path)
        /\ route # <<>> => e.node \in NodesOf(graph) /\ HasCoords(graph, e.node)
        /\ (e.node # NoneNode) =>
              LET path_to_intersection == shortest_path(graph, companion_node, e.node, "distance")
              IN  path_to_intersection # <<>> /\ Plottable(graph, path_to_intersection)

\* display_results_page reaches its buttons
display_results_page ==
    Truthy(best_driver_info) =>
        LET driver_label == best_driver_info[1].driver
            coords == IF driver_label.num = <<>> THEN <<>>
                      ELSE PyIndex(driver_coords, Last(driver_label.num) - 1)
        IN  /\ driver_label # NoLabel
            /\ coords # <<>>
            /\ LET locations == <<[label |-> driver_label, coords |-> coords[1]],
                                  [label |-> OfficeLabel, coords |-> office_location],
                                  [label |-> CompanionLabel, coords |-> markers[1]]>>
               IN  plot_paths_on_map(find_best_paths(bangalore_graph, locations),
                                     bangalore_graph, locations, best_driver_info)

\* Reset Everything without driver_coords.clear()
reset_everything_KeepsDrivers ==
    /\ page = "results"
    /\ display_results_page
    /\ markers' = <<>>
    /\ driver_capacity' = <<>>
    /\ best_driver_info' = <<>>
    /\ page' = "map"
    /\ warning' = ""
    /\ reset' = TRUE
    /\ NoLocals
    /\ UNCHANGED <<login, driver_coords, network>>

\* Reset Everything button
reset_everything ==
    /\ page = "results"
    /\ display_results_page
    /\ markers' = <<>>
    /\ driver_coords' = <<>>
    /\ driver_capacity' = <<>>
    /\ best_driver_info' = <<>>
    /\ page' = "map"
    /\ warning' = ""
    /\ reset' = TRUE
    /\ NoLocals
    /\ UNCHANGED <<login, network>>

\* Logout button of the results page
logout_results ==
    /\ page = "results"
    /\ display_results_page
    /\ page' = "login"
    /\ warning' = ""
    /\ reset' = FALSE
    /\ NoLocals
    /\ UNCHANGED <<login, markers, driver_coords, driver_capacity, best_driver_info,
                   network>>

Next ==
    \/ display_login_page
    \/ handle_companion_input
    \/ update_drivers
    \/ clear_drivers
    \/ process_routes
    \/ logout_map
    \/ reset_everything
    \/ logout_results

Spec == Init /\ [][Next]_vars

\* The session with the driver slider at its maximum, on the networks where a
\* driver at node 1 is matched at node 3.
InitSlider ==
    /\ Init
    /\ bangalore_graph \in {GraphOf("base", "both_ways", 7), GraphOf("base", "near", 7)}

NextSlider ==
    \/ display_login_page
    \/ handle_companion_input
    \/ update_ten_drivers
    \/ clear_drivers
    \/ process_routes
    \/ logout_map
    \/ reset_everything
    \/ logout_results

SpecSlider == InitSlider /\ [][NextSlider]_vars

-----------------------------------------------------------------------------
(* Properties.  The locals of process_routes are set in the state that      *)
(* follows a Process run which passed the guard, and only there.             *)

Processed == paths # <<>>

\* the companion node of the last Process run
CompNode == nearest_nodes(bangalore_graph, markers[1][2], markers[1][1])

\* driver_paths[driver_label][0]
StartOf(label) == Lookup(paths, label).path[1]

\* the legs of candidate k of the i-th (driver, companion) pair
LegsOf(i, k) ==
    Legs(bangalore_graph, StartOf(aerial_distances[i].label),
         aerial_distances[i].top[k][1], aerial_distances[i].companion)

\* candidate k of pair i is reachable in both legs and within the buffer
Admissible(i, k) ==
    /\ ~LegsOf(i, k).raised
    /\ LegsOf(i, k).time_from <= LegsOf(i, k).time_to + buffer_time

AdmissibleOf(i) == {k \in DOMAIN aerial_distances[i].top : Admissible(i, k)}

\* C1: the node recorded as best intersection of a pair is reachable in both
\* legs and its companion-leg travel time is at most time_to + buffer_time.
C1_BufferRespected ==
    \A i \in DOMAIN driver_companion_distances :
        LET e == driver_companion_distances[i]
            legs == Legs(bangalore_graph, StartOf(e.label), e.node, e.companion)
        IN  e.node # NoneNode =>
                /\ ~legs.raised
                /\ legs.time_from <= legs.time_to + buffer_time
                /\ e.time = legs.time_from

\* C1 witness: a candidate with a road distance to the companion below the
\* recorded one was passed over for breaking the buffer, and a node was recorded.
C1_Witness ==
    /\ Processed
    /\ \E i \in DOMAIN driver_companion_distances :
          /\ i \in DOMAIN aerial_distances
          /\ driver_companion_distances[i].node # NoneNode
          /\ \E k \in DOMAIN aerial_distances[i].top :
                /\ ~LegsOf(i, k).raised
                /\ LegsOf(i, k).time_from > LegsOf(i, k).time_to + buffer_time
                /\ \A j \in DOMAIN aerial_distances[i].top :
                      ~LegsOf(i, j).raised => LegsOf(i, k).dist_from <= LegsOf(i, j).dist_from
                /\ LegsOf(i, k).dist_from < driver_companion_distances[i].distance

\* every result of the last Process run is "no intersection found"
NoIntersectionAtAll ==
    /\ Processed
    /\ \A i \in DOMAIN driver_companion_distances :
          driver_companion_distances[i].distance >= Inf /\ driver_companion_distances[i].node = NoneNode

\* C2: when every (driver, companion) result is "no intersection found", Process
\* records no match and the session does not move to the results page.
C2_NoMatchIsReported ==
    NoIntersectionAtAll => page # "results" /\ ~Truthy(best_driver_info)

\* the least distance over the results, Inf when there is none
LeastDistance ==
    SetMin({Inf} \cup {driver_companion_distances[i].distance : i \in DOMAIN driver_companion_distances})

\* C3: the match has the least companion-side road distance of all results,
\* and when that distance is finite it is the first result, in the order
\* driver1, driver2, ..., that has it.
C3_MinimalDistanceFirst ==
    Processed =>
        LET sel == best_driver_info[1]
            least == {i \in DOMAIN driver_companion_distances :
                         driver_companion_distances[i].distance = LeastDistance}
        IN  /\ sel.distance = LeastDistance
            /\ LeastDistance < Inf =>
                  LET e == driver_companion_distances[SetMin(least)]
                  IN  /\ sel.driver = e.label
                      /\ sel.time = e.time
                      /\ sel.node = e.node

\* C3 witness: the second driver's distance is below the first's and the second
\* driver is the match.
C3_Witness ==
    /\ Processed
    /\ Len(driver_companion_distances) = 2
    /\ driver_companion_distances[2].distance < driver_companion_distances[1].distance
    /\ driver_companion_distances[1].distance < Inf
    /\ best_driver_info[1].driver = driver_companion_distances[2].label

\* the admissible candidate with the least dist_from, the earliest in the list
\* among equals
FirstNearest(i) ==
    LET least == SetMin({LegsOf(i, k).dist_from : k \in AdmissibleOf(i)})
    IN  SetMin({k \in AdmissibleOf(i) : LegsOf(i, k).dist_from = least})

\* C4: the node recorded for a pair is the admissible candidate with the least
\* dist_from, the earliest in the candidate list among equals; the recorded
\* distance and time are its dist_from and time_from.
C4_BestAdmissibleCandidate ==
    Processed =>
        /\ Len(driver_companion_distances) = Len(aerial_distances)
        /\ \A i \in DOMAIN aerial_distances :
              LET e == driver_companion_distances[i]
              IN  /\ e.node # NoneNode => AdmissibleOf(i) # {}
                  /\ AdmissibleOf(i) # {} =>
                        LET k == FirstNearest(i)
                        IN  /\ e.node = aerial_distances[i].top[k][1]
                            /\ e.distance = LegsOf(i, k).dist_from
                            /\ e.time = LegsOf(i, k).time_from

\* C4 witness: two admissible candidates share the least dist_from and the one
\* recorded is the earlier of them.
C4_Witness ==
    /\ Processed
    /\ \E i \in DOMAIN aerial_distances :
          /\ AdmissibleOf(i) # {}
          /\ \E k \in AdmissibleOf(i) :
                /\ k > FirstNearest(i)
                /\ LegsOf(i, k).dist_from = LegsOf(i, FirstNearest(i)).dist_from
          /\ driver_companion_distances[i].node = aerial_distances[i].top[FirstNearest(i)][1]

\* C5: a driver whose route is empty has no candidate entry and no result entry
\* and is not the match; every result entry belongs to a driver with a route.
C5_EmptyRouteSkipped ==
    Processed =>
        /\ \A i \in DOMAIN paths :
              paths[i].path = <<>> =>
                 /\ \A j \in DOMAIN aerial_distances : aerial_distances[j].label # paths[i].label
                 /\ \A j \in DOMAIN driver_companion_distances :
                       driver_companion_distances[j].label # paths[i].label
                 /\ best_driver_info[1].driver # paths[i].label
        /\ \A j \in DOMAIN driver_companion_distances :
              \E i \in DOMAIN paths :
                 /\ paths[i].label = driver_companion_distances[j].label
                 /\ paths[i].path # <<>>

\* C5 witness: one driver has no route, another has one and is the match.
C5_Witness ==
    /\ Processed
    /\ \E i, j \in DOMAIN paths :
          /\ paths[i].path = <<>>
          /\ paths[j].path # <<>>
          /\ best_driver_info[1].driver = paths[j].label

\* C6: a candidate list has at most 5 entries, each a node of the driver's route
\* with its aerial distance to the companion, in non-decreasing distance.
C6_AtMostFiveSorted ==
    \A i \in DOMAIN aerial_distances :
        LET top == aerial_distances[i].top
            route == Lookup(paths, aerial_distances[i].label).path
        IN  /\ Len(top) <= TopK
            /\ \A k \in DOMAIN top :
                  /\ top[k][1] \in Range(route)
                  /\ top[k][2] = calculate_aerial_distance(bangalore_graph, top[k][1],
                                                           aerial_distances[i].companion)
            /\ \A k \in 1..(Len(top) - 1) : top[k][2] <= top[k + 1][2]

\* C6 witness: a route of more than 5 nodes was cut to 5 candidates.
C6_Witness ==
    /\ Processed
    /\ \E i \in DOMAIN aerial_distances :
          /\ Len(Lookup(paths, aerial_distances[i].label).path) > TopK
          /\ Len(aerial_distances[i].top) = TopK

\* the place of a node on a route
PlaceOn(route, node) == CHOOSE p \in DOMAIN route : route[p] = node

\* C7: the candidate list is the first 5 of the route's nodes in stable order
\* of aerial distance: no left-out node is nearer than a listed one, and of two
\* equally near nodes the one earlier on the route comes first (and is the one
\* listed when only one fits).
C7_StableTopFive ==
    \A i \in DOMAIN aerial_distances :
        LET top == aerial_distances[i].top
            route == Lookup(paths, aerial_distances[i].label).path
            listed == {top[k][1] : k \in DOMAIN top}
            far(n) == calculate_aerial_distance(bangalore_graph, n, aerial_distances[i].companion)
            before(a, b) == \/ far(a) < far(b)
                            \/ far(a) = far(b) /\ PlaceOn(route, a) < PlaceOn(route, b)
        IN  /\ Len(top) = (IF Len(route) < TopK THEN Len(route) ELSE TopK)
            /\ listed \subseteq Range(route)
            /\ \A k \in 1..(Len(top) - 1) : before(top[k][1], top[k + 1][1])
            /\ \A a \in listed : \A b \in Range(route) \ listed : before(a, b)

\* C7 witness: a left-out route node is exactly as near as a listed one.
C7_Witness ==
    /\ Processed
    /\ \E i \in DOMAIN aerial_distances :
          LET top == aerial_distances[i].top
              route == Lookup(paths, aerial_distances[i].label).path
              listed == {top[k][1] : k \in DOMAIN top}
          IN  \E a \in listed : \E b \in Range(route) \ listed :
                 calculate_aerial_distance(bangalore_graph, a, aerial_distances[i].companion)
                 = calculate_aerial_distance(bangalore_graph, b, aerial_distances[i].companion)

\* the office node and the node of the i-th driver
OfficeNode == nearest_nodes(bangalore_graph, office_location[2], office_location[1])
DriverNode(i) == nearest_nodes(bangalore_graph, driver_coords[i][2], driver_coords[i][1])

\* path is a walk along edges of the graph
IsWalk(graph, path) == \A k \in 1..(Len(path) - 1) : HasEdge(graph, path[k], path[k + 1])

\* some walk leads from u to v
Connected(graph, u, v) == ComputeDistances(graph, u, "hops")[v] < Inf

\* C8: find_best_paths has exactly one entry per driver, in driver order and
\* none for the office or the companion; a driver with no path to the office
\* keeps an entry with an empty route, any other has a walk from the driver's
\* node to the office node.
C8_OneRoutePerDriver ==
    Processed =>
        /\ Len(paths) = Len(driver_coords)
        /\ \A i \in DOMAIN paths :
              /\ paths[i].label = DriverLabel(i)
              /\ IF Connected(bangalore_graph, DriverNode(i), OfficeNode)
                 THEN /\ paths[i].path # <<>>
                      /\ paths[i].path[1] = DriverNode(i)
                      /\ Last(paths[i].path) = OfficeNode
                      /\ IsWalk(bangalore_graph, paths[i].path)
                 ELSE paths[i].path = <<>>

\* C8 witness: the first driver has no path to the office and keeps an empty
\* route, the second has a route.
C8_Witness ==
    /\ Processed
    /\ Len(paths) = 2
    /\ paths[1].path = <<>>
    /\ paths[2].path # <<>>

\* C9: a pair with a candidate entry none of whose candidates is admissible
\* still gets a result entry, with no node and distance and time at infinity.
C9_NoIntersectionRecorded ==
    Processed =>
        /\ Len(driver_companion_distances) = Len(aerial_distances)
        /\ \A i \in DOMAIN aerial_distances :
              /\ driver_companion_distances[i].label = aerial_distances[i].label
              /\ driver_companion_distances[i].companion = aerial_distances[i].companion
              /\ AdmissibleOf(i) = {} =>
                    /\ driver_companion_distances[i].node = NoneNode
                    /\ driver_companion_distances[i].distance = Inf
                    /\ driver_companion_distances[i].time = Inf

\* C9 witness: a pair has candidates that reach the companion, all of them
\* beyond the buffer, and its result has no node.
C9_Witness ==
    /\ Processed
    /\ \E i \in DOMAIN aerial_distances :
          /\ AdmissibleOf(i) = {}
          /\ \E k \in DOMAIN aerial_distances[i].top : ~LegsOf(i, k).raised
          /\ i \in DOMAIN driver_companion_distances
          /\ driver_companion_distances[i].node = NoneNode

\* the candidates of pair i that raise no NetworkXNoPath, in list order
ReachableOf(i) ==
    LET top == aerial_distances[i].top
        keep == {k \in DOMAIN top : ~LegsOf(i, k).raised}
        RECURSIVE Pick(_)
        Pick(k) == IF k = 0 THEN <<>>
                   ELSE IF k \in keep THEN Append(Pick(k - 1), top[k]) ELSE Pick(k - 1)
    IN  Pick(Len(top))

\* C10: a candidate with a leg without path changes nothing: every pair gets
\* the result it would get with those candidates taken off its list, so the
\* candidates behind them and the pairs behind it are still evaluated.
C10_UnreachableSkipped ==
    Processed =>
        /\ Len(driver_companion_distances) = Len(aerial_distances)
        /\ \A i \in DOMAIN aerial_distances :
              LET e == driver_companion_distances[i]
                  alone == BestAfter(bangalore_graph, StartOf(aerial_distances[i].label),
                                     aerial_distances[i].companion, ReachableOf(i),
                                     Len(ReachableOf(i)))
              IN  /\ e.distance = alone.distance
                  /\ e.time = alone.time
                  /\ e.node = alone.node

\* C10 witness: in the first of two pairs an unreachable candidate stands
\* between two reachable ones, the first of which is the recorded node.
C10_Witness ==
    /\ Processed
    /\ Len(driver_companion_distances) = 2
    /\ \E k1, k2, k3 \in DOMAIN aerial_distances[1].top :
          /\ k1 < k2 /\ k2 < k3
          /\ ~LegsOf(1, k1).raised /\ LegsOf(1, k2).raised /\ ~LegsOf(1, k3).raised
          /\ driver_companion_distances[1].node = aerial_distances[1].top[k1][1]

\* C11: a route node without latitude or longitude is in no candidate list:
\* every listed candidate has both coordinates and a finite aerial distance,
\* also on a route of 5 nodes or fewer.
C11_MissingCoordinateExcluded ==
    \A i \in DOMAIN aerial_distances :
        \A k \in DOMAIN aerial_distances[i].top :
            /\ HasCoords(bangalore_graph, aerial_distances[i].top[k][1])
            /\ aerial_distances[i].top[k][2] < Inf

\* the travel_time of the parallel edge with key 0 of every consecutive pair of
\* a path, added up from the front; an edge without the attribute adds 0
KeyZeroTime(path) ==
    LET t[k \in 0..(Len(path) - 1)] ==
            IF k = 0 THEN 0
            ELSE LET attrs == bangalore_graph.adj[<<path[k], path[k + 1]>>][1]
                 IN  t[k - 1] + (IF "travel_time" \in DOMAIN attrs THEN attrs.travel_time ELSE 0)
    IN  t[Len(path) - 1]

\* the two paths of find_best_intersection_node for a candidate node of a pair
PathTo(label, node) == shortest_path(bangalore_graph, StartOf(label), node, "travel_time")
PathFrom(node, companion) == shortest_path(bangalore_graph, node, companion, "length")

\* C12: the travel times of a pair are sums over the key-0 edge of each
\* consecutive pair of nodes, a missing travel_time adding 0: the recorded time
\* is that sum along the path to the companion, the recorded node is within the
\* buffer under these sums, and no candidate that is within the buffer under
\* these sums has a smaller distance to the companion than the recorded one.
C12_FirstParallelEdgeCounted ==
    Processed =>
        \A i \in DOMAIN driver_companion_distances :
            LET e == driver_companion_distances[i]
                top == aerial_distances[i].top
            IN  /\ e.node # NoneNode =>
                      /\ e.time = KeyZeroTime(PathFrom(e.node, e.companion))
                      /\ KeyZeroTime(PathFrom(e.node, e.companion))
                            <= KeyZeroTime(PathTo(e.label, e.node)) + buffer_time
                /\ \A k \in DOMAIN top :
                      (/\ ~LegsOf(i, k).raised
                       /\ KeyZeroTime(PathFrom(top[k][1], e.companion))
                             <= KeyZeroTime(PathTo(e.label, top[k][1])) + buffer_time)
                      => e.distance <= LegsOf(i, k).dist_from

\* a consecutive pair of the path has parallel edges of which the one with
\* key 0 is not the one with the least travel_time
CrossesHeavierFirst(path) ==
    \E k \in 1..(Len(path) - 1) :
        LET d == bangalore_graph.adj[<<path[k], path[k + 1]>>]
        IN  \E j \in DOMAIN d : Get(d[j], "travel_time", 0) < Get(d[1], "travel_time", 0)

\* C12 witness: the recorded node of a pair reaches the companion over parallel
\* edges whose first is the slower and longer one, and the recorded time is
\* above the travel time of the path along the lightest edges.
C12_Witness ==
    /\ Processed
    /\ \E i \in DOMAIN driver_companion_distances :
          LET e == driver_companion_distances[i]
          IN  /\ e.node # NoneNode
              /\ CrossesHeavierFirst(PathFrom(e.node, e.companion))
              /\ e.time > shortest_path_length(bangalore_graph, e.node, e.companion, "travel_time")

\* C13: from the map page with no driver or no companion, no step computes a
\* route, a candidate or an intersection, changes best_driver_info or enters
\* the results page; and a run that shows the warning of Process started
\* without a driver or without a companion and left the page ('map'),
\* best_driver_info, the drivers and the companions as they were.
C13_RejectedBeforeComputation ==
    [][/\ (page = "map" /\ (driver_coords = <<>> \/ markers = <<>>)) =>
             /\ paths' = <<>> /\ aerial_distances' = <<>> /\ driver_companion_distances' = <<>>
             /\ best_driver_info' = best_driver_info
             /\ page' # "results"
       /\ warning' = ProcessWarning =>
             /\ page = "map" /\ page' = "map"
             /\ driver_coords = <<>> \/ markers = <<>>
             /\ paths' = <<>> /\ aerial_distances' = <<>> /\ driver_companion_distances' = <<>>
             /\ UNCHANGED <<best_driver_info, driver_coords, driver_capacity, markers>>]_vars

\* C13 witness: Process was rejected for want of a driver in a session that
\* has a companion and the match of an earlier run.
C13_Witness ==
    /\ warning = ProcessWarning
    /\ page = "map"
    /\ driver_coords = <<>>
    /\ markers # <<>>
    /\ Truthy(best_driver_info)

\* C14: no step of the session changes the road network: its nodes, edges and
\* attributes after a step, a Process run included, are those before it.
C14_GraphReadOnly ==
    [][/\ bangalore_graph'.nodes = bangalore_graph.nodes
       /\ bangalore_graph'.adj = bangalore_graph.adj]_vars

\* C14 witness: a matching run has recorded a meeting node, on the network
\* whose path lengths were worked out when it was loaded.
C14_Witness ==
    /\ Processed
    /\ page = "results"
    /\ logged_in
    /\ \E i \in DOMAIN driver_companion_distances : driver_companion_distances[i].node # NoneNode
    /\ distance_tables = AllDistances(bangalore_graph)

\* C15: when Process has selected a match with a meeting node, the directed
\* graph has a path from the companion node to the meeting node, the one
\* plot_paths_on_map asks for.
C15_CompanionReachesMeetingNode ==
    (Processed /\ page = "results" /\ best_driver_info[1].driver # NoLabel) =>
        shortest_path(bangalore_graph, CompNode, best_driver_info[1].node, "distance") # <<>>

\* C16: when the selection records a driver, the recorded meeting node is a
\* node (neither None nor -1), the recorded distance is finite, and the node
\* is among the candidates of that driver and on that driver's route.
C16_SelectedMatchHasNode ==
    (Processed /\ best_driver_info[1].driver # NoLabel) =>
        LET sel == best_driver_info[1]
        IN  /\ sel.node # NoneNode /\ sel.node # NoNodeYet
            /\ sel.distance < Inf
            /\ \E i \in DOMAIN aerial_distances :
                  /\ aerial_distances[i].label = sel.driver
                  /\ \E k \in DOMAIN aerial_distances[i].top :
                        aerial_distances[i].top[k][1] = sel.node
            /\ sel.node \in Range(Lookup(paths, sel.driver).path)

\* C16 witness: the first driver's entry has distance +infinity, the second
\* driver's is finite and the second driver is the match.
C16_Witness ==
    /\ Processed
    /\ Len(driver_companion_distances) = 2
    /\ driver_companion_distances[1].distance >= Inf
    /\ driver_companion_distances[2].distance < Inf
    /\ best_driver_info[1].driver = driver_companion_distances[2].label
    /\ best_driver_info[1].node # NoneNode

\* C17: the companions keep their order of arrival while there is one (a new
\* one goes to the end, only Reset Everything empties the list), and the
\* candidates, the intersection results and the match of a Process run are
\* those of the pipeline run for the node of the first companion alone.
C17_FirstCompanionOnly ==
    /\ [](Processed =>
            LET first == nearest_nodes(bangalore_graph, markers[1][2], markers[1][1])
                alone == calculate_driver_companion_distances(bangalore_graph, paths, <<first>>)
                results == find_best_intersection_node(bangalore_graph, paths, <<first>>, alone)
            IN  /\ \A i \in DOMAIN aerial_distances : aerial_distances[i].companion = first
                /\ aerial_distances = alone
                /\ driver_companion_distances = results
                /\ best_driver_info = SelectBest(results))
    /\ [][(markers # <<>> /\ markers' # <<>>) =>
             /\ Len(markers') >= Len(markers)
             /\ \A i \in DOMAIN markers : markers'[i] = markers[i]]_vars

\* C17 witness: a Process run with two companions that lie at different nodes
\* has found a match.
C17_Witness ==
    /\ Processed
    /\ Len(markers) = 2
    /\ nearest_nodes(bangalore_graph, markers[2][2], markers[2][1]) # CompNode
    /\ best_driver_info[1].driver # NoLabel

\* the route nodes ahead of the companion node that share its coordinates
AheadAtSamePlace(route, companion) ==
    {n \in Range(route) :
        /\ n # companion
        /\ PlaceOn(route, n) < PlaceOn(route, companion)
        /\ calculate_aerial_distance(bangalore_graph, n, companion) = 0}

\* every travel_time of the graph is 0 or more
NoNegativeTime ==
    \A p \in DOMAIN bangalore_graph.adj : \A k \in DOMAIN bangalore_graph.adj[p] :
        Get(bangalore_graph.adj[p][k], "travel_time", 0) >= 0

\* pair i is one the statement is about: the companion node is on the route
\* and has coordinates, fewer than 5 route nodes ahead of it share its place
OnRoute(i) ==
    LET route == Lookup(paths, aerial_distances[i].label).path
        companion == aerial_distances[i].companion
    IN  /\ companion \in Range(route)
        /\ HasCoords(bangalore_graph, companion)
        /\ NoNegativeTime
        /\ Cardinality(AheadAtSamePlace(route, companion)) < TopK

\* the result of pair i is the companion node itself, at distance 0 and time 0
MeetsAtCompanion(i) ==
    /\ driver_companion_distances[i].node = aerial_distances[i].companion
    /\ driver_companion_distances[i].distance = 0
    /\ driver_companion_distances[i].time = 0

\* C18 as stated: a pair whose companion node is on the route, with fewer than
\* 5 route nodes at its place ahead of it, has the companion node as result,
\* at distance 0 and time 0.
C18_CompanionOnRoute ==
    Processed => \A i \in DOMAIN aerial_distances : OnRoute(i) => MeetsAtCompanion(i)

\* a route node ahead of the companion node, at its place, is accepted at road
\* distance 0 to the companion
ZeroAhead(i) ==
    LET route == Lookup(paths, aerial_distances[i].label).path
        companion == aerial_distances[i].companion
    IN  \E k \in AdmissibleOf(i) :
           /\ aerial_distances[i].top[k][1] \in AheadAtSamePlace(route, companion)
           /\ LegsOf(i, k).dist_from = 0

\* C18 amended: the same, for the pairs in which no route node at the
\* companion's place ahead of it is accepted at road distance 0; in the other
\* pairs the result has distance 0 and is the first such node.
C18_CompanionOnRouteUnlessZeroAhead ==
    Processed =>
        \A i \in DOMAIN aerial_distances :
            OnRoute(i) =>
                /\ driver_companion_distances[i].distance = 0
                /\ ~ZeroAhead(i) => MeetsAtCompanion(i)
                /\ ZeroAhead(i) =>
                      driver_companion_distances[i].node
                          \in AheadAtSamePlace(Lookup(paths, aerial_distances[i].label).path,
                                               aerial_distances[i].companion)

\* C18 witness: the companion node is on a route of more than 5 nodes behind a
\* node at its place, from which the road to it is not of length 0, and it is
\* the result.
C18_Witness ==
    /\ Processed
    /\ \E i \in DOMAIN aerial_distances :
          LET route == Lookup(paths, aerial_distances[i].label).path
          IN  /\ OnRoute(i)
              /\ Len(route) > TopK
              /\ AheadAtSamePlace(route, aerial_distances[i].companion) # {}
              /\ ~ZeroAhead(i)
              /\ MeetsAtCompanion(i)

\* C19: page is 'login', 'map' or 'results'; on the results page
\* best_driver_info is not None and there is a driver and a companion; a step
\* onto the results page is a Process run from the map page that passed its
\* guard, and a step from the login page to the map page stores a non-empty
\* name and a non-empty CSID.
C19_PageInvariant ==
    /\ [](/\ page \in {"login", "map", "results"}
          /\ page = "results" =>
                /\ Truthy(best_driver_info)
                /\ driver_coords # <<>>
                /\ markers # <<>>)
    /\ [][/\ (page # "results" /\ page' = "results") =>
                 /\ page = "map"
                 /\ ProcessGuard
                 /\ paths' # <<>>
                 /\ UNCHANGED <<driver_coords, markers>>
          /\ (page = "login" /\ page' # "login") =>
                 /\ page' = "map"
                 /\ logged_in' /\ user_name' # "" /\ user_csid' # ""]_vars

\* C19 witness: the results page of a logged-in session, with the match of two
\* drivers and a companion.
C19_Witness ==
    /\ page = "results"
    /\ logged_in /\ user_name # "" /\ user_csid # ""
    /\ Len(driver_coords) = 2
    /\ markers # <<>>
    /\ Truthy(best_driver_info)

\* the place in a list that Python's seq[i] reads; 0 when it raises IndexError
PlaceRead(seq, i) ==
    IF i >= 0 /\ i < Len(seq) THEN i + 1
    ELSE IF i < 0 /\ -i <= Len(seq) THEN Len(seq) + i + 1
    ELSE 0

\* C20: on the results page with a driver as match, the last character of the
\* label is a digit and driver_coords[int(label[-1]) - 1] reads the place of
\* the driver that find_best_paths gave this label, and so that driver's
\* coordinate; the label of the driver at place K is driverK.
C20_LabelFindsDriver ==
    (page = "results" /\ best_driver_info[1].driver # NoLabel) =>
        LET label == best_driver_info[1].driver
            K == CHOOSE i \in DOMAIN paths : paths[i].label = label
            index == Last(label.num) - 1
        IN  /\ K \in 1..SliderMax
            /\ label = [kind |-> "driver", num |-> Digits(K)]
            /\ PlaceRead(driver_coords, index) = K
            /\ PyIndex(driver_coords, index) = <<driver_coords[K]>>
            /\ paths[K].path[1] = DriverNode(K)

\* C20 witness: driver10 is the match of ten drivers, its label ends in '0'
\* and the other nine drivers are somewhere else.
C20_Witness ==
    /\ page = "results"
    /\ Len(driver_coords) = SliderMax
    /\ best_driver_info[1].driver.num = <<1, 0>>
    /\ \A i \in 1..(SliderMax - 1) : driver_coords[i] # driver_coords[SliderMax]

\* C21: a run in which Reset Everything is pressed starts on the results page
\* and leaves markers, driver_coords and driver_capacity empty,
\* best_driver_info None and page 'map', and no other step leads from the
\* results page to the map page; the step from the results page to the login
\* page (Logout) changes nothing but page; while there is no driver or no
\* companion no step from the map page enters the results page and a Process
\* run stays on 'map'; and the lists get their first entry only on the map
\* page, drivers by Update Drivers and a companion by Add Companion.
C21_ResetAndLogout ==
    [][/\ reset' =>
             /\ page = "results" /\ page' = "map"
             /\ markers' = <<>> /\ driver_coords' = <<>> /\ driver_capacity' = <<>>
             /\ best_driver_info' = <<>>
       /\ (page = "results" /\ page' = "map") => reset'
       /\ (page = "results" /\ page' = "login") =>
             UNCHANGED <<markers, driver_coords, driver_capacity, best_driver_info,
                         login, bangalore_graph>>
       /\ (page = "map" /\ (driver_coords = <<>> \/ markers = <<>>)) =>
             /\ page' # "results"
             /\ warning' = ProcessWarning => page' = "map"
       /\ (driver_coords = <<>> /\ driver_coords' # <<>>) =>
             /\ page = "map" /\ page' = "map"
             /\ Len(driver_capacity') = Len(driver_coords')
             /\ UNCHANGED markers
       /\ (markers = <<>> /\ markers' # <<>>) =>
             /\ page = "map" /\ page' = "map"
             /\ Len(markers') = 1
             /\ UNCHANGED driver_coords]_vars

\* C21 witness: Reset Everything has just been pressed: the session is on the
\* map page with no companion, no driver and no match.
C21_Witness ==
    /\ reset
    /\ page = "map"
    /\ markers = <<>> /\ driver_coords = <<>> /\ driver_capacity = <<>>
    /\ best_driver_info = <<>>

====
